---- MODULE Spec2Model ----
(***************************************************************************)
(* StrainFLAIR scripts/mapping_parser.py: the pangenome graph builder, the *)
(* gene identity index, the best-path resolver (BFS), the variant          *)
(* extractor, the path matcher, the mapping parser and the abundance       *)
(* aggregator.                                                             *)
(*                                                                         *)
(* Conventions.  A Python dict whose iteration order the code observes is  *)
(* a sequence of [k, v] entries in insertion order.  A Python dict with an *)
(* optional key (a JSON object) is a TLA+ record that has the field or has *)
(* it not.  A Python string that the code only compares, measures or       *)
(* iterates is a tuple of one-character strings; identifiers are TLA+      *)
(* strings.  A '-'-joined node signature is the tuple of the node ids and  *)
(* a '|'-delimited path identifier is the tuple of its fields (joining and *)
(* splitting are inverse for ids that hold no delimiter).  A float that is *)
(* the quotient of two small integers is the reduced fraction [n, d].      *)
(* Indices found in the data (path positions, subpath indices, offsets)    *)
(* are 0-based as in the source.                                           *)
(***************************************************************************)
EXTENDS Integers, Sequences, FiniteSets, TLC

VARIABLES
    \* parse_graph / generate_clusters_dict
    gfile,          \* the lines of the graph file
    gpos,           \* number of lines consumed
    pangenome,      \* the Pangenome under construction
    gstatus,        \* "running" | "KeyError" | "returned"
    d_genes,        \* gene signature -> member path ids (insertion order)
    d_idt,          \* path id -> [genes, cluster?]
    d_clusters,     \* the unpickled cluster table: cluster id -> genes_list
    \* get_matching_path
    node_list,      \* the argument of the last call
    found,          \* its result
    \* BFS
    aln,            \* the alignment record being resolved
    queue,          \* work queue of subpath indices
    current_paths,  \* frontier: subpath index -> list of prefixes
    final_paths,    \* the Alignments returned
    bpc,            \* "seed" | "walk" | "collect" | "done" | "ZeroDivisionError" | "idle"
    \* parse_vgmpmap
    thr,            \* the score threshold, a fraction [n, d]
    stream,         \* the records read so far
    reads,          \* read name -> read sequence -> list of Alignments
    variants,       \* <<node, position, base>> -> list of read names
    previous_read,
    ppc,            \* "idle" | "reading" | "returned" | an exception name
    \* get_abundance
    slot,           \* number of (read, pair) slots classified so far
    multi_reads,
    ambig_reads,    \* gene -> list of (read, pair)
    nocolor_reads,  \* cluster -> list of (read, pair)
    d_abund,        \* gene -> abundance record
    path_seq,       \* the local path_seq of get_abundance ("unset" before line 648)
    d_strains_abund,
    apc             \* "idle" | "loop" | "returned" | an exception name

gvars == <<gfile, gpos, pangenome, gstatus, d_genes, d_idt, d_clusters>>
mvars == <<node_list, found>>
bvars == <<aln, queue, current_paths, final_paths, bpc>>
pvars == <<thr, stream, reads, variants, previous_read, ppc>>
avars == <<slot, multi_reads, ambig_reads, nocolor_reads, d_abund, path_seq,
           d_strains_abund, apc>>
vars == <<gvars, mvars, bvars, pvars, avars>>

(***************************************************************************)
(* Bounds of the model                                                     *)
(***************************************************************************)
MaxLines == 4
MaxPathLen == 3
MaxQueryLen == 3
MaxSub == 3
MaxRecords == 3

(***************************************************************************)
(* Python built-ins                                                        *)
(***************************************************************************)
Min(a, b) == IF a <= b THEN a ELSE b

Reverse(s) == [i \in 1..Len(s) |-> s[Len(s) + 1 - i]]

\* s[a:b] with Python's treatment of negative and out-of-range bounds
PySlice(s, a, b) ==
    LET n == Len(s)
        lo0 == IF a < 0 THEN a + n ELSE a
        lo == IF lo0 < 0 THEN 0 ELSE IF lo0 > n THEN n ELSE lo0
        hi0 == IF b < 0 THEN b + n ELSE b
        hi == IF hi0 < 0 THEN 0 ELSE IF hi0 > n THEN n ELSE hi0
    IN  IF hi <= lo THEN <<>> ELSE [i \in 1..(hi - lo) |-> s[lo + i]]

InSeq(x, s) == \E i \in 1..Len(s) : s[i] = x

RECURSIVE Concat(_)
Concat(ss) == IF ss = <<>> THEN <<>> ELSE Head(ss) \o Concat(Tail(ss))

\* d.get(k, dflt) on a JSON object
GetOr(d, k, dflt) == IF k \in DOMAIN d THEN d[k] ELSE dflt

\* insertion-ordered dict
DKeys(d) == [i \in 1..Len(d) |-> d[i].k]
DHas(d, k) == \E i \in 1..Len(d) : d[i].k = k
DIdx(d, k) == CHOOSE i \in 1..Len(d) : d[i].k = k
DGet(d, k) == d[DIdx(d, k)].v
DPut(d, k, v) ==
    IF DHas(d, k) THEN [d EXCEPT ![DIdx(d, k)] = [k |-> k, v |-> v]]
    ELSE Append(d, [k |-> k, v |-> v])
DPop(d, k) == SelectSeq(d, LAMBDA e : e.k # k)
\* defaultdict(list)[k]
DGetList(d, k) == IF DHas(d, k) THEN DGet(d, k) ELSE <<>>

(***************************************************************************)
(* Pangenome                                                               *)
(***************************************************************************)
complement(base) ==
    CASE base = "A" -> "T" [] base = "C" -> "G" [] base = "G" -> "C"
      [] base = "T" -> "A" [] base = "N" -> "N"

reverse_complement(dna) == [i \in 1..Len(dna) |-> complement(dna[Len(dna) + 1 - i])]

Node(ID, sequence) ==
    [ID |-> ID, sequence |-> sequence, pathsCrossed |-> <<>>,
     previous |-> <<>>, next |-> <<>>]

Pangenome == [nodes |-> <<>>, paths |-> <<>>]

add_path(pg, path) == [pg EXCEPT !.paths = DPut(@, path.ID, path)]

get_path(pg, path_id) == DGet(pg.paths, path_id)

paths(pg) == DKeys(pg.paths)

add_node(pg, node) == [pg EXCEPT !.nodes = DPut(@, node.ID, node)]

has_node(pg, node_id) == DHas(pg.nodes, node_id)

get_node(pg, node_id) == DGet(pg.nodes, node_id)

set_node(pg, node) == [pg EXCEPT !.nodes[DIdx(pg.nodes, node.ID)].v = node]

edit_node(pg, edit_type, key, value) ==
    LET n == get_node(pg, key)
    IN  CASE edit_type = "add_path" ->
                set_node(pg, [n EXCEPT !.pathsCrossed =
                    DPut(@, value[1], Append(DGetList(@, value[1]), value[2]))])
          [] edit_type = "add_next" ->
                set_node(pg, [n EXCEPT !.next = Append(@, value)])
          [] edit_type = "add_previous" ->
                set_node(pg, [n EXCEPT !.previous = Append(@, value)])
          [] OTHER -> pg

\* the loop of lines 283-292 from step i (1-based) of the node list on;
\* st = [pg, path, seq, err]
RECURSIVE PathSteps(_, _, _, _)
PathSteps(st, path_id, nl, i) ==
    IF i > Len(nl) THEN st
    ELSE LET ori == nl[i].ori
             node_id == nl[i].id
         IN  IF ~has_node(st.pg, node_id) THEN [st EXCEPT !.err = "KeyError"]
             ELSE LET node == get_node(st.pg, node_id)
                      pg1 == edit_node(st.pg, "add_path", node_id,
                                       <<path_id, <<i - 1, ori>> >>)
                  IN  PathSteps(
                        [pg |-> pg1,
                         path |-> [st.path EXCEPT !.nodes = Append(@, node.ID)],
                         seq |-> st.seq \o (IF ori = "+" THEN node.sequence
                                            ELSE reverse_complement(node.sequence)),
                         err |-> "none"],
                        path_id, nl, i + 1)

\* a loop that would read the node records and pass over the others
ParseNodesOnly(pg, line) ==
    IF line.t = "S" THEN [pg |-> add_node(pg, Node(line.id, line.seq)), err |-> "none"]
    ELSE [pg |-> pg, err |-> "none"]

\* one iteration of the loop of parse_graph: [pg, err]
ParseLine(pg, line) ==
    CASE line.t = "S" ->
            [pg |-> add_node(pg, Node(line.id, line.seq)), err |-> "none"]
      [] line.t = "P" ->
            LET st == PathSteps([pg |-> pg, path |-> [ID |-> line.id, nodes |-> <<>>],
                                 seq |-> <<>>, err |-> "none"],
                                line.id, line.nodes, 1)
            IN  IF st.err # "none" THEN [pg |-> st.pg, err |-> st.err]
                ELSE [pg |-> add_path(st.pg, [ID |-> line.id, nodes |-> st.path.nodes,
                                              sequence |-> st.seq]),
                      err |-> "none"]
      [] line.t = "L" ->
            IF ~has_node(pg, line.from) \/ ~has_node(pg, line.to)
            THEN [pg |-> pg, err |-> "KeyError"]
            ELSE LET node1 == get_node(pg, line.from)
                     node2 == get_node(pg, line.to)
                     pg1 == IF ~InSeq(node2.ID, node1.next)
                            THEN edit_node(pg, "add_next", node1.ID, node2.ID)
                            ELSE pg
                     pg2 == IF ~InSeq(node1.ID, node2.previous)
                            THEN edit_node(pg1, "add_prev", node1.ID, node2.ID)
                            ELSE pg1
                 IN  [pg |-> pg2, err |-> "none"]
      [] OTHER -> [pg |-> pg, err |-> "none"]

\* parse_graph on a whole file: [pg, err]
RECURSIVE ParseFrom(_, _, _)
ParseFrom(pg, file, i) ==
    IF i > Len(file) THEN [pg |-> pg, err |-> "none"]
    ELSE LET r == ParseLine(pg, file[i])
         IN  IF r.err # "none" THEN r ELSE ParseFrom(r.pg, file, i + 1)

parse_graph(file) == ParseFrom(Pangenome, file, 1)

(***************************************************************************)
(* Gene identity index                                                     *)
(***************************************************************************)
\* a loop that would look a path up by its forward signature only
RECURSIVE GenesForwardOnly(_, _, _)
GenesForwardOnly(pg, dg, i) ==
    IF i > Len(paths(pg)) THEN dg
    ELSE LET cpath == paths(pg)[i]
             nodelist == get_path(pg, cpath).nodes
             nodelist_r == Reverse(get_path(pg, cpath).nodes)
         IN  IF DHas(dg, nodelist)
             THEN GenesForwardOnly(pg, DPut(dg, nodelist, Append(DGet(dg, nodelist), cpath)),
                                   i + 1)
             ELSE GenesForwardOnly(pg, DPut(dg, nodelist_r, <<cpath>>), i + 1)

\* the loop of lines 318-327 from the i-th path on
RECURSIVE GenesFrom(_, _, _)
GenesFrom(pg, dg, i) ==
    IF i > Len(paths(pg)) THEN dg
    ELSE LET cpath == paths(pg)[i]
             nodelist == get_path(pg, cpath).nodes
             nodelist_r == Reverse(get_path(pg, cpath).nodes)
         IN  IF DHas(dg, nodelist)
             THEN GenesFrom(pg, DPut(dg, nodelist, Append(DGet(dg, nodelist), cpath)), i + 1)
             ELSE IF DHas(dg, nodelist_r)
             THEN GenesFrom(pg, DPut(dg, nodelist_r, Append(DGet(dg, nodelist_r), cpath)), i + 1)
             ELSE GenesFrom(pg, DPut(dg, nodelist_r, <<cpath>>), i + 1)

\* d[j][key] = value on a defaultdict(dict)
SetField(d, j, key, value) ==
    LET old == IF DHas(d, j) THEN DGet(d, j) ELSE <<>>
    IN  DPut(d, j, [f \in DOMAIN old \cup {key} |-> IF f = key THEN value ELSE old[f]])

\* lines 330-332: i-th gene, j-th member
RECURSIVE IdtGenes(_, _, _, _)
IdtGenes(di, dg, i, j) ==
    IF i > Len(dg) THEN di
    ELSE IF j > Len(dg[i].v) THEN IdtGenes(di, dg, i + 1, 1)
    ELSE IdtGenes(SetField(di, dg[i].v[j], "genes", dg[i].k), dg, i, j + 1)

\* lines 333-335: i-th cluster, j-th member of its genes_list
RECURSIVE IdtClusters(_, _, _, _)
IdtClusters(di, dc, i, j) ==
    IF i > Len(dc) THEN di
    ELSE IF j > Len(dc[i].v) THEN IdtClusters(di, dc, i + 1, 1)
    ELSE IdtClusters(SetField(di, dc[i].v[j], "cluster", dc[i].k), dc, i, j + 1)

\* clusters is the unpickled cluster table d_clusters
generate_clusters_dict(pg, clusters) ==
    LET dg == GenesFrom(pg, <<>>, 1)
    IN  [d_genes |-> dg,
         d_idt |-> IdtClusters(IdtGenes(<<>>, dg, 1, 1), clusters, 1, 1)]

(***************************************************************************)
(* Path matcher                                                            *)
(***************************************************************************)
\* a test that would leave out the reverse-complement case
ForwardMatches(pg, path, idx, nl) ==
    PySlice(get_path(pg, path).nodes, idx[1], idx[1] + Len(nl)) = nl

\* the test of line 596 for occurrence idx = <<index, strand>> of the start node
SliceMatches(pg, path, idx, nl) ==
    \/ PySlice(get_path(pg, path).nodes, idx[1], idx[1] + Len(nl)) = nl
    \/ PySlice(get_path(pg, path).nodes, idx[1] - Len(nl) + 1, idx[1] + 1) = Reverse(nl)

\* [err, found]
get_matching_path(pg, nl) ==
    IF ~has_node(pg, nl[1]) THEN [err |-> "KeyError", found |-> <<>>]
    ELSE LET paths_sel == get_node(pg, nl[1]).pathsCrossed
             Hits(e) == SelectSeq(e.v, LAMBDA idx : SliceMatches(pg, e.k, idx, nl))
         IN  [err |-> "none",
              found |-> Concat([i \in 1..Len(paths_sel) |->
                            [j \in 1..Len(Hits(paths_sel[i])) |-> paths_sel[i].k]])]

(***************************************************************************)
(* Fractions (the floats of the source that are quotients of integers)     *)
(***************************************************************************)
Abs(x) == IF x < 0 THEN -x ELSE x

RECURSIVE GCD(_, _)
GCD(a, b) == IF b = 0 THEN a ELSE GCD(b, a % b)

\* n / d for d > 0
Frac(n, d) == LET g == GCD(Abs(n), d) IN [n |-> n \div g, d |-> d \div g]

FAdd(x, y) == Frac(x.n * y.d + y.n * x.d, x.d * y.d)
FGe(x, y) == x.n * y.d >= y.n * x.d
FGt(x, y) == x.n * y.d > y.n * x.d
FZero == [n |-> 0, d |-> 1]

RECURSIVE FSum(_)
FSum(fs) == IF fs = <<>> THEN FZero ELSE FAdd(Head(fs), FSum(Tail(fs)))

\* int(x) of a float: truncation toward zero
FInt(x) == IF x.n >= 0 THEN x.n \div x.d ELSE -((-x.n) \div x.d)

(***************************************************************************)
(* Variant extractor                                                       *)
(***************************************************************************)
\* an integer position, and the insertion key str(a)+'-'+str(b)+'_'+str(o)
IntPos(p) == <<p>>
InsKey(a, b, o) == <<a, b, o>>
\* isinstance(pos, str), and '_' in str(pos)
IsStrPos(pos) == Len(pos) = 3

\* the body of the loop of line 346 for one edit: [out, pos]
EditVariants(node_id, pos, is_reverse, edit) ==
    LET from_len == GetOr(edit, "from_length", 0)
        to_len == GetOr(edit, "to_length", 0)
        dir == IF is_reverse THEN -1 ELSE 1
    IN  IF from_len = to_len
        THEN IF "sequence" \notin DOMAIN edit
             THEN [out |-> <<>>, pos |-> pos + dir * from_len]
             ELSE [out |-> [k \in 1..Len(edit.sequence) |->
                               <<node_id, IntPos(pos + dir * (k - 1)), edit.sequence[k]>>],
                   pos |-> pos + dir * Len(edit.sequence)]
        ELSE IF "sequence" \notin DOMAIN edit
             THEN [out |-> [k \in 1..from_len |->
                               <<node_id, IntPos(pos + dir * (k - 1)), " ">>],
                   pos |-> pos + dir * from_len]
             ELSE LET pos_bis == IF is_reverse THEN Len(edit.sequence) - 1 ELSE 0
                  IN  [out |-> [k \in 1..Len(edit.sequence) |->
                                  <<node_id,
                                    InsKey(pos - 1, pos, pos_bis + dir * (k - 1)),
                                    IF is_reverse THEN complement(edit.sequence[k])
                                    ELSE edit.sequence[k]>>],
                       pos |-> pos]

RECURSIVE EditsVariants(_, _, _, _, _)
EditsVariants(node_id, pos, is_reverse, edits, i) ==
    IF i > Len(edits) THEN <<>>
    ELSE LET r == EditVariants(node_id, pos, is_reverse, edits[i])
         IN  r.out \o EditsVariants(node_id, r.pos, is_reverse, edits, i + 1)

\* the body of the loop of line 341 for one mapping step
StepVariants(pg, node) ==
    LET node_id == node.position.node_id
        offset == GetOr(node.position, "offset", 0)
        is_reverse == "is_reverse" \in DOMAIN node.position
        pos == IF is_reverse
               THEN Len(get_node(pg, node_id).sequence) - 1 - offset
               ELSE offset
    IN  EditsVariants(node_id, pos, is_reverse, node.edit, 1)

get_variants(pg, mapping_node) ==
    Concat([i \in 1..Len(mapping_node.path.mapping) |->
               StepVariants(pg, mapping_node.path.mapping[i])])

(***************************************************************************)
(* Best-path resolver                                                      *)
(***************************************************************************)
AllEdits(sp) == Concat([i \in 1..Len(sp.path.mapping) |-> sp.path.mapping[i].edit])

RECURSIVE SumSeq(_)
SumSeq(s) == IF s = <<>> THEN 0 ELSE Head(s) + SumSeq(Tail(s))

\* lines 401-411 and 438-448: what one subpath consumes
EditMatch(edit) ==
    IF GetOr(edit, "from_length", 0) = GetOr(edit, "to_length", 0)
       /\ "sequence" \notin DOMAIN edit
    THEN GetOr(edit, "to_length", 0) ELSE 0

EditAligned(edit) == Min(GetOr(edit, "from_length", 0), GetOr(edit, "to_length", 0))

Contribution(sp) ==
    LET edits == AllEdits(sp)
    IN  [read_len |-> SumSeq([k \in 1..Len(edits) |-> GetOr(edits[k], "to_length", 0)]),
         nb_match |-> SumSeq([k \in 1..Len(edits) |-> EditMatch(edits[k])]),
         nb_aligned |-> SumSeq([k \in 1..Len(edits) |-> EditAligned(edits[k])]),
         score |-> GetOr(sp, "score", 0)]

\* lines 399-419: [queue, cp, err]
RECURSIVE SeedFrom(_, _, _)
SeedFrom(a, st, start) ==
    IF start >= Len(a.subpath) THEN st
    ELSE LET c == Contribution(a.subpath[start + 1])
         IN  SeedFrom(a,
                [queue |-> Append(st.queue, start),
                 cp |-> DPut(st.cp, start,
                            Append(DGetList(st.cp, start),
                                   <<<<start>>, c.read_len, c.score, c.nb_match, c.nb_aligned>>)),
                 err |-> "none"],
                start + 1)

Seed(a) == SeedFrom(a, [queue |-> <<>>, cp |-> <<>>, err |-> "none"], 0)

\* an update that would keep every prefix, whatever its score
UpdateAppend(lst, new) == Append(lst, new)

\* lines 464-473 for one prefix of the current node
UpdateChild(lst, new) ==
    IF Len(lst) = 0 THEN <<new>>
    ELSE LET best_previous_score == lst[1][3]
         IN  IF new[3] > best_previous_score THEN <<new>>
             ELSE IF new[3] = best_previous_score THEN Append(lst, new)
             ELSE lst

\* the loop of line 460
RECURSIVE Extend(_, _, _, _, _)
Extend(lst, prefixes, i, child, c) ==
    IF i > Len(prefixes) THEN lst
    ELSE LET p == prefixes[i]
             new == <<Append(p[1], child), p[2] + c.read_len, p[3] + c.score,
                      p[4] + c.nb_match, p[5] + c.nb_aligned>>
         IN  Extend(UpdateChild(lst, new), prefixes, i + 1, child, c)

\* the loop of line 432 from the i-th child on
RECURSIVE Children(_, _, _, _, _)
Children(a, st, current_node, next, i) ==
    IF i > Len(next) \/ st.err # "none" THEN st
    ELSE LET child == next[i]
             q1 == IF ~InSeq(child, st.queue) THEN Append(st.queue, child) ELSE st.queue
         IN  IF child >= Len(a.subpath)
             THEN [queue |-> q1, cp |-> st.cp, err |-> "IndexError"]
             ELSE LET c == Contribution(a.subpath[child + 1])
                      cp1 == IF ~DHas(st.cp, child) THEN DPut(st.cp, child, <<>>) ELSE st.cp
                      lst == Extend(DGet(cp1, child), DGet(cp1, current_node), 1, child, c)
                  IN  Children(a, [queue |-> q1, cp |-> DPut(cp1, child, lst), err |-> "none"],
                               current_node, next, i + 1)

\* one iteration of the loop of line 423
WalkStep(a, st) ==
    LET current_node == Head(st.queue)
        q1 == Tail(st.queue)
        sp == a.subpath[current_node + 1]
    IN  IF "next" \notin DOMAIN sp THEN [st EXCEPT !.queue = q1]
        ELSE IF ~DHas(st.cp, current_node) THEN [st EXCEPT !.queue = q1, !.err = "KeyError"]
        ELSE IF \A i \in 1..Len(DGet(st.cp, current_node)) :
                    DGet(st.cp, current_node)[i][2] = Len(a.sequence)
        THEN [st EXCEPT !.queue = q1]
        ELSE LET st2 == Children(a, [st EXCEPT !.queue = q1], current_node, sp.next, 1)
             IN  IF st2.err # "none" THEN st2
                 ELSE [st2 EXCEPT !.cp = DPop(@, current_node)]

RECURSIVE Walk(_, _)
Walk(a, st) ==
    IF st.queue = <<>> \/ st.err # "none" THEN st ELSE Walk(a, WalkStep(a, st))

\* lines 488-498: the (node id, abundance) list after one more mapping step
AddNode(pg, nodes, node) ==
    LET nodeID == node.position.node_id
        abund == FSum([k \in 1..Len(node.edit) |->
                         Frac(EditAligned(node.edit[k]), Len(get_node(pg, nodeID).sequence))])
        current_node_list == [k \in 1..Len(nodes) |-> nodes[k][1]]
    IN  IF InSeq(nodeID, current_node_list)
        THEN LET node_loc == CHOOSE k \in 1..Len(nodes) :
                                /\ nodes[k][1] = nodeID
                                /\ \A j \in 1..(k - 1) : nodes[j][1] # nodeID
             IN  [nodes EXCEPT ![node_loc] = <<nodeID, FAdd(nodes[node_loc][2], abund)>>]
        ELSE Append(nodes, <<nodeID, abund>>)

RECURSIVE AddNodes(_, _, _, _)
AddNodes(pg, nodes, mapping, i) ==
    IF i > Len(mapping) THEN nodes
    ELSE AddNodes(pg, AddNode(pg, nodes, mapping[i]), mapping, i + 1)

\* the loop of line 484 from the i-th subpath of the prefix on: [nodes, variants]
RECURSIVE AlongPath(_, _, _, _, _)
AlongPath(pg, a, acc, path, i) ==
    IF i > Len(path) THEN acc
    ELSE LET sp == a.subpath[path[i] + 1]
         IN  AlongPath(pg, a,
                [nodes |-> AddNodes(pg, acc.nodes, sp.path.mapping, 1),
                 variants |-> acc.variants \o get_variants(pg, sp)],
                path, i + 1)

\* lines 482-504 for one prefix; identity is "ZeroDivisionError" when no base is aligned
Alignment(pg, a, tupl) ==
    LET acc == AlongPath(pg, a, [nodes |-> <<>>, variants |-> <<>>], tupl[1], 1)
    IN  [nodes |-> acc.nodes, variants |-> acc.variants, len |-> tupl[2],
         score |-> tupl[3],
         identity |-> IF tupl[5] = 0 THEN "ZeroDivisionError"
                      ELSE Frac(tupl[4], tupl[5])]

\* lines 479-505: [err, final_paths]
Collect(pg, a, cp) ==
    LET all == Concat([i \in 1..Len(cp) |-> cp[i].v])
        firstBad == IF \E i \in 1..Len(all) : all[i][5] = 0
                    THEN CHOOSE i \in 1..Len(all) :
                            all[i][5] = 0 /\ \A j \in 1..(i - 1) : all[j][5] # 0
                    ELSE 0
    IN  IF firstBad # 0 THEN [err |-> "ZeroDivisionError", final_paths |-> <<>>]
        ELSE [err |-> "none",
              final_paths |-> [i \in 1..Len(all) |-> Alignment(pg, a, all[i])]]

\* [err, final_paths, cp]
BFS(pg, a) ==
    LET st == Walk(a, Seed(a))
    IN  IF st.err # "none" THEN [err |-> st.err, final_paths |-> <<>>, cp |-> st.cp]
        ELSE LET r == Collect(pg, a, st.cp)
             IN  [err |-> r.err, final_paths |-> r.final_paths, cp |-> st.cp]

(***************************************************************************)
(* Mapping parser                                                          *)
(***************************************************************************)
\* lines 556-561: the variants of every first Alignment of read rd
RECURSIVE AddVariants(_, _, _, _)
AddVariants(vs, tupls, i, rd) ==
    IF i > Len(tupls) THEN vs
    ELSE AddVariants(DPut(vs, tupls[i], Append(DGetList(vs, tupls[i]), rd)),
                     tupls, i + 1, rd)

\* lines 553-561 and 567-574: vs after the group of previous is closed
Flush(rds, vs, name, previous) ==
    IF name # previous /\ DHas(rds, previous)
    THEN LET slots == DGet(rds, previous)
         IN  IF \A i \in 1..Len(slots) : Len(slots[i].v) = 1
             THEN AddVariants(vs, Concat([i \in 1..Len(slots) |-> slots[i].v[1].variants]),
                              1, previous)
             ELSE vs
    ELSE vs

\* lines 538-550: the reads table after a record with Alignments fp
Retain(rds, a, fp, threshold) ==
    LET new_score == Frac(fp[1].score, Len(a.sequence))
        byseq == DGetList(rds, a.name)
    IN  IF FGe(new_score, threshold)
        THEN IF ~DHas(byseq, a.sequence)
             THEN DPut(rds, a.name, DPut(byseq, a.sequence, fp))
             ELSE LET cur == DGet(byseq, a.sequence)
                      current_score == Frac(cur[1].score, Len(a.sequence))
                  IN  IF FGt(new_score, current_score)
                      THEN DPut(rds, a.name, DPut(byseq, a.sequence, fp))
                      ELSE IF new_score = current_score
                      THEN DPut(rds, a.name, DPut(byseq, a.sequence, cur \o fp))
                      ELSE rds
        ELSE rds

\* one iteration of the loop of line 526: [reads, variants, previous_read, err]
ParseRecord(pg, st, a, threshold) ==
    IF "subpath" \notin DOMAIN a THEN st
    ELSE LET r == BFS(pg, a)
         IN  IF r.err # "none" THEN [st EXCEPT !.err = r.err]
             ELSE LET rds == Retain(st.reads, a, r.final_paths, threshold)
                  IN  [reads |-> rds,
                       variants |-> Flush(rds, st.variants, a.name, st.previous_read),
                       previous_read |-> a.name,
                       err |-> "none"]

\* lines 566-576, a being the last line read
ParseEnd(st, a) == [st EXCEPT !.variants = Flush(st.reads, @, a.name, st.previous_read)]

RECURSIVE ParseRecords(_, _, _, _, _)
ParseRecords(pg, st, lines, i, threshold) ==
    IF st.err # "none" THEN st
    ELSE IF i > Len(lines)
    THEN IF lines = <<>> THEN [st EXCEPT !.err = "NameError"]
         ELSE ParseEnd(st, lines[Len(lines)])
    ELSE ParseRecords(pg, ParseRecord(pg, st, lines[i], threshold), lines, i + 1, threshold)

parse_vgmpmap(pg, lines, threshold) ==
    ParseRecords(pg, [reads |-> <<>>, variants |-> <<>>, previous_read |-> "",
                      err |-> "none"], lines, 1, threshold)

(***************************************************************************)
(* Abundance aggregator                                                    *)
(***************************************************************************)
\* the (read, pair) pairs in the order of the loops of lines 615-616
Slots(rds) ==
    Concat([i \in 1..Len(rds) |->
               [j \in 1..Len(rds[i].v) |-> <<rds[i].k, rds[i].v[j].k>>]])

\* list(set(l)): the distinct elements (kept in order of first occurrence; the
\* order of a Python set is read by no modelled code but for insertion orders)
RECURSIVE Distinct(_)
Distinct(l) ==
    IF l = <<>> THEN <<>>
    ELSE <<Head(l)>> \o Distinct(SelectSeq(Tail(l), LAMBDA x : x # Head(l)))

\* lines 636-637
RECURSIVE AddAmbig(_, _, _, _)
AddAmbig(amb, genes, i, rp) ==
    IF i > Len(genes) THEN amb
    ELSE AddAmbig(DPut(amb, genes[i], Append(DGetList(amb, genes[i]), rp)), genes, i + 1, rp)

RECURSIVE ZeroAbund(_, _, _)
ZeroAbund(d, gene, i) ==
    IF i > Len(gene) THEN d ELSE ZeroAbund(DPut(d, gene[i], FZero), gene, i + 1)

\* lines 642-651: the fresh record of a gene and the path_seq computed for it
NewGene(pg, gene) ==
    [rec |-> [uniq_count |-> FZero, nodes_abund |-> ZeroAbund(<<>>, gene, 1),
              nb_subst |-> <<>>],
     path_seq |-> Concat([i \in 1..Len(gene) |-> get_node(pg, gene[i]).sequence])]

\* lines 655-656
RECURSIVE AddAbund(_, _, _)
AddAbund(na, nodes, i) ==
    IF i > Len(nodes) THEN na
    ELSE AddAbund(DPut(na, nodes[i][1], FAdd(DGet(na, nodes[i][1]), nodes[i][2])),
                  nodes, i + 1)

\* lines 658-661
CountSubst(vs) == Len(SelectSeq(vs, LAMBDA t : ~IsStrPos(t[2])))

\* line 653: the length the unique count is normalised by
UniqDenominator(ps, gene_seq) == Len(ps)

\* lines 640-667 for a slot of length pairlen whose Alignment matched only gene;
\* st = [d_abund, path_seq]
CountUnique(pg, st, gene, align, pairlen) ==
    LET fresh == ~DHas(st.d_abund, gene)
        ng == NewGene(pg, gene)
        ps == IF fresh THEN ng.path_seq ELSE st.path_seq
        old == IF fresh THEN ng.rec ELSE DGet(st.d_abund, gene)
        c == ToString(CountSubst(align.variants))
        new == [uniq_count |-> FAdd(old.uniq_count,
                                    Frac(pairlen, UniqDenominator(ps, ng.path_seq))),
                nodes_abund |-> AddAbund(old.nodes_abund, align.nodes, 1),
                nb_subst |-> DPut(old.nb_subst, c,
                                  (IF DHas(old.nb_subst, c) THEN DGet(old.nb_subst, c) ELSE 0) + 1)]
    IN  [d_abund |-> DPut(st.d_abund, gene, new), path_seq |-> ps]

\* a loop that would send every slot on to the path matcher
IsMultiNever(alns) == FALSE

\* line 619
IsMulti(alns) == Len(alns) > 1

\* the body of the loop of line 616 for the slot rp = <<read, pair>>;
\* st = [multi_reads, ambig_reads, nocolor_reads, d_abund, path_seq, err]
ClassifySlot(pg, idt, rds, st, rp) ==
    LET alns == DGet(DGet(rds, rp[1]), rp[2])
        align == alns[1]
        align_nodes == [k \in 1..Len(align.nodes) |-> align.nodes[k][1]]
        m == get_matching_path(pg, align_nodes)
        genes_found == Distinct([k \in 1..Len(m.found) |-> DGet(idt, m.found[k]).genes])
        crossed == DKeys(get_node(pg, align_nodes[1]).pathsCrossed)
    IN  IF IsMulti(alns) THEN [st EXCEPT !.multi_reads = Append(@, rp)]
        ELSE IF m.err # "none" THEN [st EXCEPT !.err = m.err]
        ELSE IF Len(genes_found) = 0
        THEN IF crossed = <<>> THEN [st EXCEPT !.err = "IndexError"]
             ELSE IF "cluster" \notin DOMAIN DGet(idt, crossed[1])
             THEN [st EXCEPT !.err = "KeyError"]
             ELSE LET cl == DGet(idt, crossed[1]).cluster
                  IN  [st EXCEPT !.nocolor_reads = DPut(@, cl, Append(DGetList(@, cl), rp))]
        ELSE IF Len(genes_found) > 1
        THEN [st EXCEPT !.ambig_reads = AddAmbig(@, genes_found, 1, rp)]
        ELSE LET u == CountUnique(pg, [d_abund |-> st.d_abund, path_seq |-> st.path_seq],
                                  genes_found[1], align, Len(rp[2]))
             IN  [st EXCEPT !.d_abund = u.d_abund, !.path_seq = u.path_seq]

\* lines 670-677: the number of positions of node that are no insertion key
SubstOf(vs, node) ==
    Cardinality({vs[i].k[2] : i \in {j \in 1..Len(vs) :
                                      vs[j].k[1] = node /\ ~IsStrPos(vs[j].k[2])}})

\* line 689
Coverage(nodes_abund) ==
    Frac(Len(SelectSeq(nodes_abund, LAMBDA e : FGt(e.v, FZero))), Len(nodes_abund))

\* line 690
MeanAbund(nodes_abund) ==
    LET total == FSum([i \in 1..Len(nodes_abund) |-> nodes_abund[i].v])
    IN  Frac(total.n, total.d * Len(nodes_abund))

\* lines 681-691 for one gene (std_abund, a square root, is left out: nothing reads it)
GeneStats(pg, dg, vs, gene, rec) ==
    LET total == SumSeq([i \in 1..Len(gene) |-> SubstOf(vs, gene[i])])
        total_norm == Frac(total, Len(get_path(pg, DGet(dg, gene)[1]).sequence))
    IN  [uniq_count |-> rec.uniq_count,
         nodes_abund |-> rec.nodes_abund,
         nb_subst |-> DPut(rec.nb_subst, "total_norm", total_norm),
         coverage |-> Coverage(rec.nodes_abund),
         mean_abund |-> MeanAbund(rec.nodes_abund)]

\* lines 679-691
AllGeneStats(pg, dg, vs, da) ==
    [i \in 1..Len(da) |-> [k |-> da[i].k, v |-> GeneStats(pg, dg, vs, da[i].k, da[i].v)]]

\* line 694, in hundredths
NThr == 21
list_thr == [i \in 1..NThr |-> 5 * (i - 1)]

\* a sweep that would leave out a gene whose coverage equals the threshold
CovExceeds(cov, t) == cov.n * 100 > t * cov.d

\* line 713: cov >= thr
CovMeets(cov, t) == cov.n * 100 >= t * cov.d

\* line 698 and line 719: the fields the strain and the copy count are read from
StrainField(g) == g[4]
CopyField(g) == g[Len(g) - 1]

\* lines 701-710
NewStrain ==
    [i \in 1..NThr |-> [k |-> list_thr[i],
                        v |-> [nb_genes |-> 0, abund |-> <<>>, nb_copy |-> <<>>,
                               nb_subst |-> [total |-> <<>>, uniq |-> <<>>]]]]

\* lines 722-726 from the i-th key of the gene's nb_subst on
RECURSIVE AddSubst(_, _, _, _)
AddSubst(ns, gsubst, i, uniq) ==
    IF i > Len(gsubst) THEN ns
    ELSE LET nb == gsubst[i].k
             val == gsubst[i].v
             zero == IF nb = "total_norm" THEN FZero ELSE 0
             tot0 == IF DHas(ns.total, nb) THEN DGet(ns.total, nb) ELSE zero
             un0 == IF DHas(ns.uniq, nb) THEN DGet(ns.uniq, nb) ELSE zero
             tot1 == IF nb = "total_norm" THEN FAdd(tot0, val) ELSE tot0 + val
             un1 == IF ~uniq THEN un0
                    ELSE IF nb = "total_norm" THEN FAdd(un0, val) ELSE un0 + val
         IN  AddSubst([total |-> DPut(ns.total, nb, tot1), uniq |-> DPut(ns.uniq, nb, un1)],
                      gsubst, i + 1, uniq)

\* lines 717-719
NbCopy(members, e) == Len(SelectSeq(members, LAMBDA g : CopyField(g) = e))

\* lines 712-726 for gene record rec with member paths members and strain e
RollStrain(ds, rec, members, e, uniq) ==
    LET ds1 == IF DHas(ds, e) THEN ds ELSE DPut(ds, e, NewStrain)
        Upd(entry) ==
            IF CovMeets(rec.coverage, entry.k)
            THEN [k |-> entry.k,
                  v |-> [nb_genes |-> entry.v.nb_genes + 1,
                         abund |-> Append(entry.v.abund, rec.mean_abund),
                         nb_copy |-> Append(entry.v.nb_copy, NbCopy(members, e)),
                         nb_subst |-> AddSubst(entry.v.nb_subst, rec.nb_subst, 1, uniq)]]
            ELSE entry
    IN  DPut(ds1, e, [i \in 1..NThr |-> Upd(DGet(ds1, e)[i])])

RECURSIVE RollStrains(_, _, _, _, _)
RollStrains(ds, rec, members, s, i) ==
    IF i > Len(s) THEN ds
    ELSE RollStrains(RollStrain(ds, rec, members, s[i], Len(s) = 1), rec, members, s, i + 1)

\* lines 696-726 from the i-th gene on: [ds, err]
RECURSIVE RollGenes(_, _, _, _)
RollGenes(ds, dg, da, i) ==
    IF i > Len(da) THEN [ds |-> ds, err |-> "none"]
    ELSE LET members == DGet(dg, da[i].k)
         IN  IF \E j \in 1..Len(members) : Len(members[j]) < 4
             THEN [ds |-> ds, err |-> "IndexError"]
             ELSE LET s == Distinct([j \in 1..Len(members) |-> StrainField(members[j])])
                  IN  RollGenes(RollStrains(ds, da[i].v, members, s, 1), dg, da, i + 1)

\* lines 731-733 for one (strain, threshold): the mean of abund_norm ("nan" when
\* there is no sample); std, a square root, is left out
Normalised(v) ==
    LET abund_norm == [i \in 1..Min(Len(v.abund), Len(v.nb_copy)) |->
                          Frac(FInt(v.abund[i]), v.nb_copy[i])]
        total == FSum(abund_norm)
    IN  [v EXCEPT !.abund = IF abund_norm = <<>> THEN "nan"
                            ELSE Frac(total.n, total.d * Len(abund_norm))]

\* lines 729-735: [ds, err]
Normalise(ds, da) ==
    IF \E i \in 1..Len(ds) : \E j \in 1..NThr :
          \E k \in 1..Min(Len(ds[i].v[j].v.abund), Len(ds[i].v[j].v.nb_copy)) :
              ds[i].v[j].v.nb_copy[k] = 0
    THEN [ds |-> ds, err |-> "ZeroDivisionError"]
    ELSE [ds |-> [i \in 1..Len(ds) |->
                    [k |-> ds[i].k,
                     v |-> [j \in 1..NThr |->
                              [k |-> ds[i].v[j].k, v |-> Normalised(ds[i].v[j].v)]]]],
          err |-> IF da = <<>> THEN "NameError" ELSE "none"]

(***************************************************************************)
(* Inputs: graph files                                                     *)
(***************************************************************************)
SLine(id, seq) == [t |-> "S", id |-> id, seq |-> seq]
PLine(id, nodes) == [t |-> "P", id |-> id, nodes |-> nodes]
LLine(from, to) == [t |-> "L", from |-> from, to |-> to]
Fwd(id) == [id |-> id, ori |-> "+"]
Rev(id) == [id |-> id, ori |-> "-"]

NodeIds == {"N1", "N2", "N3"}

SmallSeq(id) ==
    CASE id = "N1" -> <<"A", "C">> [] id = "N2" -> <<"G", "T">>
      [] id = "N3" -> <<"T", "T", "A">>

\* path identifiers: strain in field 3 (0-based), copy in the last field
PA == <<"gA", "x", "y", "s1", "c1">>
PB == <<"gB", "x", "y", "s2", "c1">>
PC == <<"gC", "x", "y", "s1", "c1">>
PD == <<"gD", "x", "y", "s2", "c1">>
PE == <<"gE", "x", "y", "s1", "c1">>

\* three nodes; PA and PB are one gene (PB is PA reversed), PC another
SmallGraph ==
    <<SLine("N1", SmallSeq("N1")), SLine("N2", SmallSeq("N2")),
      SLine("N3", SmallSeq("N3")),
      PLine(PA, <<Fwd("N1"), Fwd("N2")>>), PLine(PB, <<Rev("N2"), Rev("N1")>>),
      PLine(PC, <<Fwd("N1"), Fwd("N3")>>),
      LLine("N1", "N2"), LLine("N1", "N3")>>

(***************************************************************************)
(* Inputs: alignment records                                               *)
(***************************************************************************)
Match(n) == [from_length |-> n, to_length |-> n]
Subst(seq) == [from_length |-> Len(seq), to_length |-> Len(seq), sequence |-> seq]
Insertion(seq) == [to_length |-> Len(seq), sequence |-> seq]
Deletion(n) == [from_length |-> n]
Step(position, edit) == [position |-> position, edit |-> edit]
At(id) == [node_id |-> id]
AtRev(id, offset) == [node_id |-> id, offset |-> offset, is_reverse |-> TRUE]

\* subpath entries without their successors
KindA == [path |-> [mapping |-> <<Step(At("N1"), <<Match(2)>>)>>]]
KindB == [path |-> [mapping |-> <<Step(At("N2"), <<Match(2)>>)>>], score |-> 2]
KindC == [path |-> [mapping |-> <<Step(AtRev("N2", 0), <<Subst(<<"A">>), Match(1)>>)>>],
          score |-> 1]
KindD == [path |-> [mapping |-> <<Step(At("N3"), <<Insertion(<<"C">>)>>)>>], score |-> 1]

ReadSeq(n) == [i \in 1..n |-> "A"]
RECURSIVE SortedSeq(_)
SortedSeq(S) ==
    IF S = {} THEN <<>>
    ELSE LET m == CHOOSE x \in S : \A y \in S : x <= y
         IN  <<m>> \o SortedSeq(S \ {m})

WithNext(kind, nextset) ==
    IF nextset = {} THEN kind
    ELSE [f \in DOMAIN kind \cup {"next"} |->
            IF f = "next" THEN SortedSeq(nextset) ELSE kind[f]]

\* the successor relations on n subpaths numbered in topological order
TopoDags(n) ==
    {f \in [0..(n - 1) -> SUBSET (0..(n - 1))] :
        \A i \in 0..(n - 1) : \A j \in f[i] : i < j}

\* every acyclic successor relation on n subpaths, in any numbering: the
\* renumberings of those in topological order
Dags(n) ==
    {[i \in 0..(n - 1) |->
         {pi[j] : j \in f[CHOOSE k \in 0..(n - 1) : pi[k] = i]}]
     : f \in TopoDags(n), pi \in Permutations(0..(n - 1))}

Record(f, ks) ==
    [name |-> "r1", sequence |-> ReadSeq(4),
     subpath |-> [i \in 1..Len(ks) |-> WithNext(ks[i], f[i - 1])]]

\* the records of up to max subpaths: matches with and without score in any
\* numbering, and scored matches, substitutions and insertions in topological order
BFSInputs(max) ==
    UNION {
        {Record(f, ks) : f \in Dags(n), ks \in [1..n -> {KindA, KindB}]}
        \cup {Record(f, ks) : f \in TopoDags(n), ks \in [1..n -> {KindB, KindC, KindD}]}
        : n \in 1..max}

(***************************************************************************)
(* Idle values of the parts a specification does not run                   *)
(***************************************************************************)
GIdle ==
    /\ gfile = <<>> /\ gpos = 0 /\ pangenome = Pangenome /\ gstatus = "idle"
    /\ d_genes = <<>> /\ d_idt = <<>> /\ d_clusters = <<>>
MIdle == node_list = <<>> /\ found = <<>>
BIdle ==
    /\ aln = <<>> /\ queue = <<>> /\ current_paths = <<>> /\ final_paths = <<>>
    /\ bpc = "idle"
PIdle ==
    /\ thr = FZero /\ stream = <<>> /\ reads = <<>> /\ variants = <<>>
    /\ previous_read = "" /\ ppc = "idle"
AIdle ==
    /\ slot = 0 /\ multi_reads = <<>> /\ ambig_reads = <<>> /\ nocolor_reads = <<>>
    /\ d_abund = <<>> /\ path_seq = "unset" /\ d_strains_abund = <<>> /\ apc = "idle"

(***************************************************************************)
(* BFS, one loop iteration at a time                                       *)
(***************************************************************************)
InitBFS ==
    /\ gfile = SmallGraph /\ gpos = Len(SmallGraph)
    /\ pangenome = parse_graph(SmallGraph).pg /\ gstatus = "returned"
    /\ d_genes = <<>> /\ d_idt = <<>> /\ d_clusters = <<>>
    /\ MIdle /\ PIdle /\ AIdle
    /\ aln \in BFSInputs(MaxSub)
    /\ queue = <<>> /\ current_paths = <<>> /\ final_paths = <<>> /\ bpc = "seed"

BFSSeed ==
    /\ bpc = "seed"
    /\ queue' = Seed(aln).queue
    /\ current_paths' = Seed(aln).cp
    /\ bpc' = "walk"
    /\ UNCHANGED <<aln, final_paths, gvars, mvars, pvars, avars>>

BFSWalk ==
    /\ bpc = "walk" /\ queue # <<>>
    /\ LET st == WalkStep(aln, [queue |-> queue, cp |-> current_paths, err |-> "none"])
       IN  /\ queue' = st.queue
           /\ current_paths' = st.cp
           /\ bpc' = IF st.err = "none" THEN "walk" ELSE st.err
    /\ UNCHANGED <<aln, final_paths, gvars, mvars, pvars, avars>>

BFSCollect ==
    /\ bpc = "walk" /\ queue = <<>>
    /\ LET r == Collect(pangenome, aln, current_paths)
       IN  /\ final_paths' = r.final_paths
           /\ bpc' = IF r.err = "none" THEN "done" ELSE r.err
    /\ UNCHANGED <<aln, queue, current_paths, gvars, mvars, pvars, avars>>

NextBFS == BFSSeed \/ BFSWalk \/ BFSCollect

SpecBFS == InitBFS /\ [][NextBFS]_vars

(***************************************************************************)
(* Inputs of the whole run                                                 *)
(***************************************************************************)
TenBases == <<"A", "C", "G", "T", "A", "C", "G", "T", "A", "C">>

\* path identifiers with 1, 4, 5 and 6 '|'-delimited fields
P1Ids == {<<"P1">>, <<"g1", "x", "y", "s1">>, <<"g1", "x", "y", "s1", "c1">>,
          <<"g1", "x", "y", "s1", "c1", "z">>}

\* three 10-base nodes N1 -> N2 -> N3 and the single path P1 = [N1, N2, N3]
LinearGraph(p1) ==
    <<SLine("N1", TenBases), SLine("N2", TenBases), SLine("N3", TenBases),
      PLine(p1, <<Fwd("N1"), Fwd("N2"), Fwd("N3")>>),
      LLine("N1", "N2"), LLine("N2", "N3")>>

Sub(mapping, score) == [path |-> [mapping |-> mapping], score |-> score]
SubNext(mapping, score, next) ==
    [path |-> [mapping |-> mapping], score |-> score, next |-> next]

\* the subpath DAGs of the records, by what the read turns out to be
DagUnique == <<Sub(<<Step(At("N2"), <<Match(2)>>)>>, 2)>>
DagUnique3 == <<Sub(<<Step(At("N3"), <<Match(3)>>)>>, 3)>>
DagAmbiguous == <<Sub(<<Step(At("N1"), <<Match(2)>>)>>, 2)>>
DagNovel == <<Sub(<<Step(At("N2"), <<Match(2)>>), Step(At("N3"), <<Match(2)>>)>>, 4)>>
DagSubst == <<Sub(<<Step(AtRev("N2", 0), <<Subst(<<"A">>), Match(1)>>)>>, 1)>>
DagFork ==
    <<SubNext(<<Step(At("N1"), <<Match(2)>>)>>, 1, <<1, 2>>),
      [path |-> [mapping |-> <<Step(At("N2"), <<Subst(<<"A", "A">>)>>)>>]],
      Sub(<<Step(At("N3"), <<Match(2)>>)>>, 2)>>
DagTie ==
    <<SubNext(<<Step(At("N1"), <<Match(2)>>)>>, 2, <<1, 2>>),
      Sub(<<Step(At("N2"), <<Match(2)>>)>>, 2),
      Sub(<<Step(At("N3"), <<Match(2)>>)>>, 2)>>
\* a root with two successors of different own scores
DagMixed ==
    <<SubNext(<<Step(At("N1"), <<Match(2)>>)>>, 2, <<1, 2>>),
      Sub(<<Step(At("N2"), <<Match(2)>>)>>, 2),
      Sub(<<Step(At("N3"), <<Match(2)>>)>>, 1)>>
DagFull ==
    <<Sub(<<Step(At("N1"), <<Match(10)>>), Step(At("N2"), <<Match(10)>>),
            Step(At("N3"), <<Match(10)>>)>>, 30)>>
DagPart == <<Sub(<<Step(At("N1"), <<Match(10)>>), Step(At("N2"), <<Match(10)>>)>>, 20)>>

DagNovel3 == <<Sub(<<Step(At("N3"), <<Match(2)>>), Step(At("N2"), <<Match(2)>>)>>, 4)>>

Unmapped(n) == [sequence |-> ReadSeq(n)]
Mapped(n, dag) == [sequence |-> ReadSeq(n), subpath |-> dag]

\* the read of DagSubst is the mate of the read of DagUnique
SubstBody == [sequence |-> <<"C", "C">>, subpath |-> DagSubst]

\* a run's graph file, cluster table, threshold, and the [sequence, subpath?]
\* bodies its mapping file draws its records from
Configs ==
    {[graph |-> SmallGraph, clusters |-> <<[k |-> "cl1", v |-> <<PA, PB, PC>>]>>,
      thr |-> Frac(1, 2),
      bodies |-> {Unmapped(2), Mapped(2, DagUnique), SubstBody, Mapped(4, DagFork),
                  Mapped(4, DagMixed)}],
     [graph |-> SmallGraph, clusters |-> <<[k |-> "cl1", v |-> <<PA, PB, PC>>]>>,
      thr |-> Frac(9, 10),
      bodies |-> {Mapped(2, DagUnique), Mapped(3, DagUnique3), Mapped(2, DagAmbiguous),
                  Mapped(4, DagTie)}],
     [graph |-> SmallGraph, clusters |-> <<[k |-> "cl1", v |-> <<PA, PB>>]>>,
      thr |-> Frac(9, 10),
      bodies |-> {Mapped(2, DagUnique), SubstBody, Mapped(4, DagNovel),
                  Mapped(4, DagNovel3)}]}
    \cup {[graph |-> LinearGraph(p1), clusters |-> <<[k |-> "cl1", v |-> <<p1>>]>>,
           thr |-> Frac(9, 10),
           bodies |-> {Unmapped(30), Mapped(30, DagFull), Mapped(30, DagPart)}]
          : p1 \in P1Ids}

Bodies(graph, clusters, threshold) ==
    (CHOOSE c \in Configs :
        c.graph = graph /\ c.clusters = clusters /\ c.thr = threshold).bodies

ReadName(i) == "r" \o ToString(i)

NamesIn(lines) == {lines[i].name : i \in 1..Len(lines)}

\* the records of one read name are contiguous: the next record carries the name
\* of the last one or a name not seen before
NextNames(lines) ==
    IF lines = <<>> THEN {ReadName(1)}
    ELSE {lines[Len(lines)].name, ReadName(Cardinality(NamesIn(lines)) + 1)}

WithName(body, name) ==
    [f \in DOMAIN body \cup {"name"} |-> IF f = "name" THEN name ELSE body[f]]

(***************************************************************************)
(* The whole run: main, lines 52-72                                        *)
(***************************************************************************)
InitRun ==
    /\ \E c \in Configs : gfile = c.graph /\ d_clusters = c.clusters /\ thr = c.thr
    /\ gpos = 0 /\ pangenome = Pangenome /\ gstatus = "running"
    /\ d_genes = <<>> /\ d_idt = <<>>
    /\ MIdle /\ BIdle /\ AIdle
    /\ stream = <<>> /\ reads = <<>> /\ variants = <<>> /\ previous_read = ""
    /\ ppc = "idle"

\* lines 56-57
LoadGraph ==
    /\ gstatus = "running"
    /\ LET r == parse_graph(gfile)
           g == generate_clusters_dict(r.pg, d_clusters)
       IN  /\ pangenome' = r.pg
           /\ gpos' = Len(gfile)
           /\ gstatus' = IF r.err = "none" THEN "returned" ELSE r.err
           /\ d_genes' = IF r.err = "none" THEN g.d_genes ELSE d_genes
           /\ d_idt' = IF r.err = "none" THEN g.d_idt ELSE d_idt
           /\ ppc' = IF r.err = "none" THEN "reading" ELSE ppc
    /\ UNCHANGED <<gfile, d_clusters, mvars, bvars, avars,
                   thr, stream, reads, variants, previous_read>>

\* one iteration of the loop of line 526
ReadRecord ==
    /\ ppc = "reading" /\ Len(stream) < MaxRecords
    /\ \E body \in Bodies(gfile, d_clusters, thr) : \E name \in NextNames(stream) :
         LET a == WithName(body, name)
             st == ParseRecord(pangenome,
                               [reads |-> reads, variants |-> variants,
                                previous_read |-> previous_read, err |-> "none"],
                               a, thr)
         IN  /\ stream' = Append(stream, a)
             /\ aln' = a
             /\ reads' = st.reads
             /\ variants' = st.variants
             /\ previous_read' = st.previous_read
             /\ ppc' = IF st.err = "none" THEN "reading" ELSE st.err
    /\ UNCHANGED <<gvars, mvars, avars, thr, queue, current_paths, final_paths, bpc>>

\* lines 566-576, then line 72
EndOfStream ==
    /\ ppc = "reading"
    /\ IF stream = <<>>
       THEN ppc' = "NameError" /\ UNCHANGED <<variants, apc>>
       ELSE /\ variants' = ParseEnd([reads |-> reads, variants |-> variants,
                                     previous_read |-> previous_read, err |-> "none"],
                                    aln).variants
            /\ ppc' = "returned"
            /\ apc' = "loop"
    /\ UNCHANGED <<gvars, mvars, bvars, thr, stream, reads, previous_read,
                   slot, multi_reads, ambig_reads, nocolor_reads, d_abund, path_seq,
                   d_strains_abund>>

\* one iteration of the loop of line 616
Classify ==
    /\ apc = "loop" /\ slot < Len(Slots(reads))
    /\ LET st == ClassifySlot(pangenome, d_idt, reads,
                              [multi_reads |-> multi_reads, ambig_reads |-> ambig_reads,
                               nocolor_reads |-> nocolor_reads, d_abund |-> d_abund,
                               path_seq |-> path_seq, err |-> "none"],
                              Slots(reads)[slot + 1])
       IN  /\ multi_reads' = st.multi_reads
           /\ ambig_reads' = st.ambig_reads
           /\ nocolor_reads' = st.nocolor_reads
           /\ d_abund' = st.d_abund
           /\ path_seq' = st.path_seq
           /\ slot' = slot + 1
           /\ apc' = IF st.err = "none" THEN "loop" ELSE st.err
    /\ UNCHANGED <<gvars, mvars, bvars, pvars, d_strains_abund>>

\* lines 669-691
GeneStatistics ==
    /\ apc = "loop" /\ slot = Len(Slots(reads))
    /\ d_abund' = AllGeneStats(pangenome, d_genes, variants, d_abund)
    /\ apc' = "rollup"
    /\ UNCHANGED <<gvars, mvars, bvars, pvars, slot, multi_reads, ambig_reads,
                   nocolor_reads, path_seq, d_strains_abund>>

\* lines 694-726
StrainRollup ==
    /\ apc = "rollup"
    /\ LET r == RollGenes(<<>>, d_genes, d_abund, 1)
       IN  /\ d_strains_abund' = r.ds
           /\ apc' = IF r.err = "none" THEN "normalise" ELSE r.err
    /\ UNCHANGED <<gvars, mvars, bvars, pvars, slot, multi_reads, ambig_reads,
                   nocolor_reads, d_abund, path_seq>>

\* lines 728-751
StrainNormalise ==
    /\ apc = "normalise"
    /\ LET r == Normalise(d_strains_abund, d_abund)
       IN  /\ d_strains_abund' = r.ds
           /\ apc' = IF r.err = "none" THEN "returned" ELSE r.err
    /\ UNCHANGED <<gvars, mvars, bvars, pvars, slot, multi_reads, ambig_reads,
                   nocolor_reads, d_abund, path_seq>>

NextRun ==
    \/ LoadGraph \/ ReadRecord \/ EndOfStream
    \/ Classify \/ GeneStatistics \/ StrainRollup \/ StrainNormalise

SpecRun == InitRun /\ [][NextRun]_vars

(***************************************************************************)
(* parse_graph, one line at a time, then generate_clusters_dict            *)
(***************************************************************************)
\* the lines a graph file is made of; node and path identifiers are unique in a
\* file, link lines may repeat
GraphLines ==
    {SLine(n, SmallSeq(n)) : n \in NodeIds}
    \cup {PLine(PA, <<Fwd("N1"), Fwd("N2")>>), PLine(PB, <<Rev("N2"), Rev("N1")>>),
          PLine(PC, <<Fwd("N1"), Fwd("N3")>>), PLine(PD, <<Fwd("N1"), Fwd("N2")>>),
          PLine(PE, <<Fwd("N2"), Fwd("N2")>>)}
    \cup {LLine("N1", "N2"), LLine("N1", "N3"), LLine("N2", "N1")}

ClusterTables ==
    {<<>>, <<[k |-> "cl1", v |-> <<PA, PB>>], [k |-> "cl2", v |-> <<PC>>]>>}

InitGraph ==
    /\ gfile = <<>> /\ gpos = 0 /\ pangenome = Pangenome /\ gstatus = "running"
    /\ d_genes = <<>> /\ d_idt = <<>> /\ d_clusters \in ClusterTables
    /\ MIdle /\ BIdle /\ PIdle /\ AIdle

\* one iteration of the loop of line 272
GraphLine ==
    /\ gstatus = "running" /\ gpos < MaxLines
    /\ \E line \in GraphLines :
         /\ line.t \in {"S", "P"} =>
               \A i \in 1..Len(gfile) : ~(gfile[i].t = line.t /\ gfile[i].id = line.id)
         /\ LET r == ParseLine(pangenome, line)
            IN  /\ gfile' = Append(gfile, line)
                /\ gpos' = gpos + 1
                /\ pangenome' = r.pg
                /\ gstatus' = IF r.err = "none" THEN "running" ELSE r.err
    /\ UNCHANGED <<d_genes, d_idt, d_clusters, mvars, bvars, pvars, avars>>

\* line 304
GraphReturn ==
    /\ gstatus = "running"
    /\ gstatus' = "returned"
    /\ UNCHANGED <<gfile, gpos, pangenome, d_genes, d_idt, d_clusters,
                   mvars, bvars, pvars, avars>>

\* line 57
ClustersDict ==
    /\ gstatus = "returned"
    /\ d_genes' = generate_clusters_dict(pangenome, d_clusters).d_genes
    /\ d_idt' = generate_clusters_dict(pangenome, d_clusters).d_idt
    /\ gstatus' = "indexed"
    /\ UNCHANGED <<gfile, gpos, pangenome, d_clusters, mvars, bvars, pvars, avars>>

NextGraph == GraphLine \/ GraphReturn \/ ClustersDict

SpecGraph == InitGraph /\ [][NextGraph]_vars

(***************************************************************************)
(* get_matching_path on a built graph                                      *)
(***************************************************************************)
\* the non-empty lists of at most n nodes
NodeLists(n) == UNION {[1..k -> NodeIds] : k \in 1..n}

\* the three nodes, a path of any node list and orientation, and the path [N2, N1]
MatchGraphs(n) ==
    {<<SLine("N1", SmallSeq("N1")), SLine("N2", SmallSeq("N2")),
       SLine("N3", SmallSeq("N3")),
       PLine(PA, [i \in 1..Len(nl) |-> [id |-> nl[i], ori |-> ori]]),
       PLine(PB, <<Rev("N2"), Rev("N1")>>)>> : nl \in NodeLists(n), ori \in {"+", "-"}}

InitMatch ==
    /\ gfile \in MatchGraphs(MaxPathLen) /\ gpos = 0 /\ pangenome = Pangenome
    /\ gstatus = "running" /\ d_genes = <<>> /\ d_idt = <<>> /\ d_clusters = <<>>
    /\ MIdle /\ BIdle /\ PIdle /\ AIdle

\* a call of get_matching_path
MatchCall ==
    /\ gstatus = "returned" /\ node_list = <<>>
    /\ \E nl \in NodeLists(MaxQueryLen) :
         /\ node_list' = nl
         /\ found' = get_matching_path(pangenome, nl).found
    /\ UNCHANGED <<gvars, bvars, pvars, avars>>

NextMatch == LoadGraph \/ MatchCall

SpecMatch == InitMatch /\ [][NextMatch]_vars

(***************************************************************************)
(* Properties of the best-path resolver (SpecBFS)                          *)
(***************************************************************************)
\* subpath i has subpath i+1 as its only successor and the last has none
IsChain(sps) ==
    \A i \in 1..Len(sps) :
        IF i < Len(sps) THEN "next" \in DOMAIN sps[i] /\ sps[i].next = <<i>>
        ELSE "next" \notin DOMAIN sps[i]

ScoreOf(sps, p) == SumSeq([k \in 1..Len(p) |-> GetOr(sps[p[k] + 1], "score", 0)])
ReadLenOf(sps, p) == SumSeq([k \in 1..Len(p) |-> Contribution(sps[p[k] + 1]).read_len])

Roots(sps) ==
    {i \in 0..(Len(sps) - 1) :
        \A j \in 1..Len(sps) : "next" \in DOMAIN sps[j] => ~InSeq(i, sps[j].next)}

RECURSIVE PathsFrom(_, _)
PathsFrom(sps, i) ==
    IF "next" \notin DOMAIN sps[i + 1] THEN {<<i>>}
    ELSE UNION {{<<i>> \o p : p \in PathsFrom(sps, sps[i + 1].next[k])}
                : k \in 1..Len(sps[i + 1].next)}

\* the paths from a subpath without predecessor to a subpath without successor
SinkReaching(sps) == UNION {PathsFrom(sps, r) : r \in Roots(sps)}

\* the subpath sequences of the prefixes BFS turned into Alignments
ReturnedPaths ==
    UNION {{current_paths[i].v[j][1] : j \in 1..Len(current_paths[i].v)}
           : i \in 1..Len(current_paths)}

\* C1: for a linear chain of subpaths that together consume the read, BFS returns
\* exactly one Alignment, and its score is the sum of the own scores of the chain
C1_ChainOneAlignment ==
    (/\ bpc = "done"
     /\ IsChain(aln.subpath)
     /\ ReadLenOf(aln.subpath, [k \in 1..Len(aln.subpath) |-> k - 1]) = Len(aln.sequence))
    => /\ Len(final_paths) = 1
       /\ final_paths[1].score
            = ScoreOf(aln.subpath, [k \in 1..Len(aln.subpath) |-> k - 1])

\* C2: for a DAG with two sink-reaching paths, each consuming the read, of subpaths
\* with positive own scores, BFS returns exactly the sink-reaching paths of maximal
\* total score: both on a tie, only the higher-scoring one otherwise
C2_OnlyMaximal ==
    LET sps == aln.subpath
        all == SinkReaching(sps)
        best == {p \in all : \A q \in all : ScoreOf(sps, p) >= ScoreOf(sps, q)}
    IN  (/\ bpc = "done"
         /\ Cardinality(all) = 2
         /\ \A p \in all : ReadLenOf(sps, p) = Len(aln.sequence)
         /\ \A i \in 1..Len(sps) : GetOr(sps[i], "score", 0) > 0)
        => /\ ReturnedPaths = best
           /\ Len(final_paths) = Cardinality(best)

(***************************************************************************)
(* Properties of the whole run (SpecRun)                                   *)
(***************************************************************************)
Errors == {"KeyError", "IndexError", "ZeroDivisionError", "NameError"}

Count(l, x) == Len(SelectSeq(l, LAMBDA y : y = x))

SlotAlns(rds, rp) == DGet(DGet(rds, rp[1]), rp[2])

HasSlot(rds, name, sequence) == DHas(DGetList(rds, name), sequence)

\* the gene signatures the paths matching an Alignment belong to
GenesOf(align) ==
    LET m == get_matching_path(pangenome, [k \in 1..Len(align.nodes) |-> align.nodes[k][1]])
    IN  Distinct([k \in 1..Len(m.found) |-> DGet(d_idt, m.found[k]).genes])

\* the slots the loop of line 616 has gone through
Classified == [k \in 1..slot |-> Slots(reads)[k]]

InSome(d, rp) == \E i \in 1..Len(d) : InSeq(rp, d[i].v)

BestScore(fp) ==
    CHOOSE b \in {fp[i].score : i \in 1..Len(fp)} : \A i \in 1..Len(fp) : fp[i].score <= b

\* C3: after a mapped record, its slot is in the reads table if the best score of
\* the record's Alignments over the read length is >= thr, and a record below thr
\* whose slot no earlier record filled leaves the slot out of the table
C3_RetainedIffBest ==
    (ppc = "reading" /\ stream # <<>> /\ "subpath" \in DOMAIN aln) =>
        LET fp == BFS(pangenome, aln).final_paths
            passes == FGe(Frac(BestScore(fp), Len(aln.sequence)), thr)
            earlier == \E i \in 1..(Len(stream) - 1) :
                          /\ "subpath" \in DOMAIN stream[i]
                          /\ stream[i].name = aln.name
                          /\ stream[i].sequence = aln.sequence
        IN  /\ passes => HasSlot(reads, aln.name, aln.sequence)
            /\ (~passes /\ ~earlier) => ~HasSlot(reads, aln.name, aln.sequence)

\* C5: a slot of one Alignment that matches no gene is recorded as novel once the
\* classification loop has gone through it, whether or not the first path crossing
\* its first node has a cluster entry
C5_NovelRecorded ==
    \A k \in 1..Len(Classified) :
        LET alns == SlotAlns(reads, Classified[k])
        IN  (Len(alns) = 1 /\ GenesOf(alns[1]) = <<>>)
                => InSome(nocolor_reads, Classified[k])

\* a root with two successors that have no successor, the same own score and the
\* same read length
HasTie(sps) ==
    \E r \in 1..Len(sps) : "next" \in DOMAIN sps[r] /\
        \E i, j \in 1..Len(sps[r].next) :
            LET c == sps[sps[r].next[i] + 1]
                d == sps[sps[r].next[j] + 1]
            IN  /\ i < j
                /\ (r - 1) \in Roots(sps)
                /\ "next" \notin DOMAIN c /\ "next" \notin DOMAIN d
                /\ GetOr(c, "score", 0) = GetOr(d, "score", 0)
                /\ Contribution(c).read_len = Contribution(d).read_len

\* two Alignments of a slot that match one gene each, and not the same
TwoGenes(alns) ==
    /\ Len(alns) = 2
    /\ Len(GenesOf(alns[1])) = 1 /\ Len(GenesOf(alns[2])) = 1
    /\ GenesOf(alns[1]) # GenesOf(alns[2])

\* C6 (as the code has it): a record with a tie that changes the reads table leaves
\* more than one Alignment in its slot, and the classification loop records a slot
\* of more than one Alignment as multi-mapped only: nothing is recorded as ambiguous
\* or novel and no gene record changes
C6_TieIsMultiMapped ==
    [][/\ (/\ stream' # stream /\ "subpath" \in DOMAIN aln' /\ HasTie(aln'.subpath)
           /\ reads' # reads)
          => Len(SlotAlns(reads', <<aln'.name, aln'.sequence>>)) > 1
       /\ (/\ apc = "loop" /\ slot' = slot + 1
           /\ Len(SlotAlns(reads, Slots(reads)[slot + 1])) > 1)
          => /\ multi_reads' = Append(multi_reads, Slots(reads)[slot + 1])
             /\ UNCHANGED <<ambig_reads, nocolor_reads, d_abund>>
             /\ apc' = "loop"]_vars

C6_Witness ==
    /\ apc = "returned"
    /\ \E i \in 1..Len(stream) :
          /\ "subpath" \in DOMAIN stream[i] /\ HasTie(stream[i].subpath)
          /\ InSeq(<<stream[i].name, stream[i].sequence>>, multi_reads)
          /\ TwoGenes(SlotAlns(reads, <<stream[i].name, stream[i].sequence>>))
    /\ ambig_reads = <<>>

\* C6 (as stated): a classified slot whose two Alignments match two different genes
\* is recorded as ambiguous under both genes
C6_TieIsAmbiguous ==
    \A k \in 1..Len(Classified) :
        LET alns == SlotAlns(reads, Classified[k])
        IN  TwoGenes(alns) =>
               /\ InSeq(Classified[k], DGetList(ambig_reads, GenesOf(alns[1])[1]))
               /\ InSeq(Classified[k], DGetList(ambig_reads, GenesOf(alns[2])[1]))

IsLinear == \E p1 \in P1Ids : gfile = LinearGraph(p1)

\* C7: on the graph of three 10-base nodes with the single path [N1, N2, N3], the
\* run over the one read of length 30 that matches all three nodes with score 30,
\* at threshold 0.9, raises no error, and when get_abundance has returned the one
\* gene record has unique count 1 and coverage 1
C7_EndToEnd ==
    (IsLinear /\ thr = Frac(9, 10) /\ Len(stream) = 1
        /\ stream[1] = WithName(Mapped(30, DagFull), ReadName(1)))
    => /\ ppc \notin Errors /\ apc \notin Errors
       /\ apc = "returned" =>
            /\ Len(d_abund) = 1
            /\ d_abund[1].v.uniq_count = Frac(1, 1)
            /\ d_abund[1].v.coverage = Frac(1, 1)

\* C8: when parse_vgmpmap has returned, each variant of a read whose slots hold one
\* Alignment each lists the read as often as the read's Alignments carry it
C8_FlushedOnce ==
    ppc = "returned" =>
        \A i \in 1..Len(reads) :
            LET byseq == reads[i].v
                vs == Concat([j \in 1..Len(byseq) |-> byseq[j].v[1].variants])
            IN  (\A j \in 1..Len(byseq) : Len(byseq[j].v) = 1) =>
                    \A k \in 1..Len(vs) :
                        Count(DGetList(variants, vs[k]), reads[i].k) = Count(vs, vs[k])

NonZero(nodes_abund) ==
    Cardinality({i \in 1..Len(nodes_abund) : nodes_abund[i].v.n > 0})

\* the strains of the member paths of a gene
StrainsOf(gene) ==
    {DGet(d_genes, gene)[i][4] : i \in 1..Len(DGet(d_genes, gene))}

\* C9: a gene's coverage is the fraction of its nodes with nonzero abundance; a
\* strain's gene count at sweep threshold t is the number of its genes of coverage
\* >= t; and a gene whose node abundances are all zero has coverage 0 and meets
\* the threshold 0 alone
C9_CoverageSweep ==
    /\ apc \in {"rollup", "normalise", "returned"} =>
          \A g \in 1..Len(d_abund) :
              LET rec == d_abund[g].v
              IN  rec.coverage.n * Len(rec.nodes_abund)
                    = NonZero(rec.nodes_abund) * rec.coverage.d
    /\ apc \in {"normalise", "returned"} =>
          \A e \in 1..Len(d_strains_abund) : \A i \in 1..NThr :
              d_strains_abund[e].v[i].v.nb_genes
                = Cardinality({g \in 1..Len(d_abund) :
                      /\ d_strains_abund[e].k \in StrainsOf(d_abund[g].k)
                      /\ d_abund[g].v.coverage.n * 100
                           >= list_thr[i] * d_abund[g].v.coverage.d})
    /\ \A n \in 1..MaxPathLen :
          LET zeros == [i \in 1..n |-> [k |-> i, v |-> FZero]]
          IN  /\ Coverage(zeros) = FZero
              /\ \A i \in 1..NThr : CovMeets(Coverage(zeros), list_thr[i]) <=> i = 1

\* a gene of coverage 1/2 counted for a strain at the thresholds up to 0.50 only
C9_Witness ==
    /\ apc = "returned"
    /\ \E g \in 1..Len(d_abund) : \E e \in 1..Len(d_strains_abund) :
          /\ d_abund[g].v.coverage = Frac(1, 2)
          /\ d_strains_abund[e].k \in StrainsOf(d_abund[g].k)
          /\ Len(d_abund) = 1
          /\ \A i \in 1..NThr :
                d_strains_abund[e].v[i].v.nb_genes = IF list_thr[i] <= 50 THEN 1 ELSE 0

(***************************************************************************)
(* Properties of the path matcher (SpecMatch)                              *)
(***************************************************************************)
\* l is nodes[i .. i + Len(l) - 1] for some i
IsSlice(l, nodes) ==
    \E i \in 0..(Len(nodes) - Len(l)) : \A k \in 1..Len(l) : nodes[i + k] = l[k]

SliceOf(l, path) ==
    IsSlice(l, path.nodes) \/ IsSlice(Reverse(l), path.nodes)

\* C4: get_matching_path(L) holds the id of every path that has L or the reverse
\* of L as a contiguous slice, and of no other path: it is empty when no path has
\* such a slice, whatever the start index of the reverse-case slice
C4_MatchesSlices ==
    node_list # <<>> =>
        \A i \in 1..Len(pangenome.paths) :
            InSeq(pangenome.paths[i].k, found)
                <=> SliceOf(node_list, pangenome.paths[i].v)

\* the list [N1, N2] is found in path [N2, N1] by its reverse, and not in a path
\* on which the reverse-case slice of its first node starts below 0 and is not empty
C4_Witness ==
    /\ node_list = <<"N1", "N2">>
    /\ found = <<PB>>
    /\ \E idx \in 0..(MaxPathLen - 1) :
          /\ InSeq(<<idx, "+">>, DGetList(get_node(pangenome, "N1").pathsCrossed, PA))
          /\ idx - Len(node_list) + 1 < 0
          /\ PySlice(get_path(pangenome, PA).nodes, idx - Len(node_list) + 1, idx + 1)
               # <<>>

(***************************************************************************)
(* Properties of the graph builder (SpecGraph)                             *)
(***************************************************************************)
\* the node ids the i-th line refers to
RefsOf(line) ==
    CASE line.t = "P" -> {line.nodes[k].id : k \in 1..Len(line.nodes)}
      [] line.t = "L" -> {line.from, line.to}
      [] OTHER -> {}

DefinedBefore(i) == {gfile[j].id : j \in {k \in 1..(i - 1) : gfile[k].t = "S"}}

Dangling(i) == ~(RefsOf(gfile[i]) \subseteq DefinedBefore(i))

\* C10: a path or link line that refers to a node no earlier node line defined
\* ends parse_graph with a KeyError (a LookupError): it is the last line read, no
\* graph is returned and no dictionary is built from it
C10_DanglingFails ==
    \A i \in 1..Len(gfile) :
        Dangling(i) =>
            /\ gstatus = "KeyError"
            /\ i = Len(gfile) /\ gpos = i
            /\ d_genes = <<>> /\ d_idt = <<>>

\* a path line whose first node is defined and whose second node is not
C10_Witness ==
    /\ gstatus = "KeyError"
    /\ Len(gfile) > 1
    /\ gfile[Len(gfile)].t = "P"
    /\ gfile[Len(gfile)].nodes[1].id \in DefinedBefore(Len(gfile))
    /\ gfile[Len(gfile)].nodes[2].id \notin DefinedBefore(Len(gfile))

\* the link lines parse_graph has gone through without error
Linked ==
    {i \in 1..Len(gfile) :
        gfile[i].t = "L" /\ (i < Len(gfile) \/ gstatus # "KeyError")}

\* C11: for every link line (A, B) that parse_graph has processed, B is in A's next
\* list exactly once and A is in B's previous list exactly once, however often
\* the link is repeated
C11_LinksBothWays ==
    \A i \in Linked :
        /\ Count(get_node(pangenome, gfile[i].from).next, gfile[i].to) = 1
        /\ Count(get_node(pangenome, gfile[i].to).previous, gfile[i].from) = 1

\* the genes (indices of d_genes) path p is a member of, with multiplicity
Memberships(p) ==
    SumSeq([i \in 1..Len(d_genes) |-> Count(d_genes[i].v, p)])

GeneOf(p) == CHOOSE i \in 1..Len(d_genes) : InSeq(p, d_genes[i].v)

SameOrReverse(p, q) ==
    \/ get_path(pangenome, p).nodes = get_path(pangenome, q).nodes
    \/ get_path(pangenome, p).nodes = Reverse(get_path(pangenome, q).nodes)

\* C12: after generate_clusters_dict, in whatever order the path lines came, every
\* path is a member of exactly one gene, its identity record names the signature
\* that gene is stored under, and two paths are in the same gene iff their node
\* lists are equal or one is the reverse of the other
C12_OneGenePerPath ==
    gstatus = "indexed" =>
        /\ \A i \in 1..Len(pangenome.paths) :
              LET p == pangenome.paths[i].k
              IN  /\ Memberships(p) = 1
                  /\ DHas(d_idt, p)
                  /\ "genes" \in DOMAIN DGet(d_idt, p)
                  /\ DGet(d_idt, p).genes = d_genes[GeneOf(p)].k
        /\ \A i, j \in 1..Len(pangenome.paths) :
              LET p == pangenome.paths[i].k
                  q == pangenome.paths[j].k
              IN  (Memberships(p) = 1 /\ Memberships(q) = 1) =>
                      (GeneOf(p) = GeneOf(q) <=> SameOrReverse(p, q))

\* the path [N2, N1] and then its reverse [N1, N2]: one gene of two members
C12_Witness ==
    /\ gstatus = "indexed"
    /\ paths(pangenome) = <<PB, PA>>
    /\ get_path(pangenome, PA).nodes = Reverse(get_path(pangenome, PB).nodes)
    /\ Len(d_genes) = 1 /\ d_genes[1].v = <<PB, PA>>
    /\ DGet(d_idt, PA).genes = DGet(d_idt, PB).genes

\* C13: a gene is stored under the forward signature (the node ids in path order)
\* of the path that created it, its first member
C13_ForwardKey ==
    gstatus = "indexed" =>
        \A i \in 1..Len(d_genes) :
            d_genes[i].k = get_path(pangenome, d_genes[i].v[1]).nodes

(***************************************************************************)
(* Properties of the variant extractor (SpecBFS)                           *)
(***************************************************************************)
IsMatchEdit(e) ==
    GetOr(e, "from_length", 0) = GetOr(e, "to_length", 0) /\ "sequence" \notin DOMAIN e
IsSubstEdit(e) ==
    GetOr(e, "from_length", 0) = GetOr(e, "to_length", 0) /\ "sequence" \in DOMAIN e

\* the Variants of match and substitution edits from the i-th edit on, the cursor
\* being at pos: one per substituted character, complemented on the reverse strand
RECURSIVE SubstVariants(_, _, _, _, _)
SubstVariants(node_id, pos, is_reverse, edits, i) ==
    IF i > Len(edits) THEN <<>>
    ELSE LET dir == IF is_reverse THEN -1 ELSE 1
             e == edits[i]
         IN  IF IsMatchEdit(e)
             THEN SubstVariants(node_id, pos + dir * e.to_length, is_reverse, edits, i + 1)
             ELSE [k \in 1..Len(e.sequence) |->
                      <<node_id, <<pos + dir * (k - 1)>>,
                        IF is_reverse THEN complement(e.sequence[k]) ELSE e.sequence[k]>>]
                  \o SubstVariants(node_id, pos + dir * Len(e.sequence), is_reverse,
                                   edits, i + 1)

\* the same for one mapping step: the cursor starts at offset, or at
\* length - 1 - offset on the reverse strand
StepSubstVariants(step) ==
    LET is_reverse == "is_reverse" \in DOMAIN step.position
        offset == GetOr(step.position, "offset", 0)
        length == Len(get_node(pangenome, step.position.node_id).sequence)
    IN  SubstVariants(step.position.node_id,
                      IF is_reverse THEN length - 1 - offset ELSE offset,
                      is_reverse, step.edit, 1)

OnlyMatchSubst(sp) ==
    \A s \in 1..Len(sp.path.mapping) : \A k \in 1..Len(sp.path.mapping[s].edit) :
        IsMatchEdit(sp.path.mapping[s].edit[k]) \/ IsSubstEdit(sp.path.mapping[s].edit[k])

\* C14: the Variants of an Alignment whose subpaths hold match and substitution
\* edits only are, step by step, one per substituted character at the cursor,
\* the character complemented when the step is on the reverse strand
C14_SubstVariants ==
    bpc = "done" =>
        \A i \in 1..Len(final_paths) :
            LET p == Concat([k \in 1..Len(current_paths) |-> current_paths[k].v])[i][1]
                steps == Concat([k \in 1..Len(p) |-> aln.subpath[p[k] + 1].path.mapping])
            IN  (\A k \in 1..Len(p) : OnlyMatchSubst(aln.subpath[p[k] + 1])) =>
                    final_paths[i].variants
                        = Concat([s \in 1..Len(steps) |-> StepSubstVariants(steps[s])])

(***************************************************************************)
(* Properties of the unique counts (SpecRun)                               *)
(***************************************************************************)
\* the total sequence length of the nodes of a gene
GeneLength(gene) ==
    SumSeq([i \in 1..Len(gene) |-> Len(get_node(pangenome, gene[i]).sequence)])

\* the classified slots of one Alignment that matched gene and no other
UniqueSlots(gene) ==
    SelectSeq(Classified,
              LAMBDA rp : /\ Len(SlotAlns(reads, rp)) = 1
                          /\ GenesOf(SlotAlns(reads, rp)[1]) = <<gene>>)

\* C15: the unique count of a gene is the sum, over the unique reads that matched
\* it, of (read length) / (total sequence length of the nodes of that gene),
\* whatever other genes the reads in between matched
C15_UniqueCount ==
    \A g \in 1..Len(d_abund) :
        d_abund[g].v.uniq_count
            = FSum([k \in 1..Len(UniqueSlots(d_abund[g].k)) |->
                      Frac(Len(UniqueSlots(d_abund[g].k)[k][2]), GeneLength(d_abund[g].k))])

(***************************************************************************)
(* Properties of the reads table (SpecRun)                                 *)
(***************************************************************************)
\* the mapped records read so far for the slot (name, sequence), in order
RecordsOf(name, sequence) ==
    SelectSeq([i \in 1..Len(stream) |-> stream[i]],
              LAMBDA a : "subpath" \in DOMAIN a /\ a.name = name /\ a.sequence = sequence)

AlnsOf(a) == BFS(pangenome, a).final_paths

\* the best score of the record's Alignments over the read length is >= thr
Passes(a) == FGe(Frac(BestScore(AlnsOf(a)), Len(a.sequence)), thr)

\* the Alignments of the records of highest score among those that pass
BestAlns(recs) ==
    LET passing == SelectSeq(recs, Passes)
        top == SelectSeq(passing,
                         LAMBDA a : \A k \in 1..Len(passing) :
                                       BestScore(AlnsOf(passing[k])) <= BestScore(AlnsOf(a)))
    IN  Concat([k \in 1..Len(top) |-> AlnsOf(top[k])])

\* C16: the slot of a (read name, read sequence) holds exactly the Alignments of
\* its records of maximal score among those that passed the threshold (no slot
\* when none passed); the Alignments of a slot have one score and are at least one
C16_SlotHoldsBest ==
    ppc \in {"reading", "returned"} =>
        /\ \A i \in 1..Len(stream) :
              "subpath" \in DOMAIN stream[i] =>
                  LET best == BestAlns(RecordsOf(stream[i].name, stream[i].sequence))
                  IN  IF best = <<>>
                      THEN ~HasSlot(reads, stream[i].name, stream[i].sequence)
                      ELSE /\ HasSlot(reads, stream[i].name, stream[i].sequence)
                           /\ SlotAlns(reads, <<stream[i].name, stream[i].sequence>>) = best
        /\ \A k \in 1..Len(Slots(reads)) :
              LET alns == SlotAlns(reads, Slots(reads)[k])
              IN  /\ alns # <<>>
                  /\ \A i, j \in 1..Len(alns) : alns[i].score = alns[j].score

(***************************************************************************)
(* Termination of the best-path resolver (SpecBFS)                         *)
(***************************************************************************)
\* the length of the longest chain of successor links from subpath i
RECURSIVE Height(_, _)
Height(sps, i) ==
    IF "next" \notin DOMAIN sps[i + 1] THEN 0
    ELSE LET hs == {Height(sps, sps[i + 1].next[k]) : k \in 1..Len(sps[i + 1].next)}
         IN  1 + CHOOSE h \in hs : \A g \in hs : g <= h

\* a measure of the work queue that dequeuing a subpath and enqueuing each of
\* its successors at most once lowers
Rank(sps, q) == SumSeq([k \in 1..Len(q) |-> (Len(sps) + 1) ^ Height(sps, q[k])])

\* C17: on every acyclic SubpathDAG, in whatever order its subpaths are numbered,
\* each iteration of the loop over the work queue lowers the measure of the queue
\* (so the queue becomes empty) and finds the frontier entry of the subpath it
\* dequeues, and once the queue is empty BFS returns its Alignments
C17_Returns ==
    [][bpc = "walk" =>
          /\ bpc' \in {"walk", "done"}
          /\ bpc' = "walk" => Rank(aln.subpath, queue') < Rank(aln.subpath, queue)]_vars

(***************************************************************************)
(* End-to-end paths of the best-path resolver (SpecBFS)                    *)
(***************************************************************************)
\* p follows successor links
IsLinked(sps, p) ==
    \A k \in 1..(Len(p) - 1) :
        "next" \in DOMAIN sps[p[k] + 1] /\ InSeq(p[k + 1], sps[p[k] + 1].next)

\* C18: every Alignment BFS returns is an end-to-end path: it begins at a subpath
\* that is no subpath's successor, follows successor links, and ends at a subpath
\* without successor or with the read fully consumed
C18_EndToEnd ==
    bpc = "done" =>
        \A p \in ReturnedPaths :
            /\ p[1] \in Roots(aln.subpath)
            /\ IsLinked(aln.subpath, p)
            /\ \/ "next" \notin DOMAIN aln.subpath[p[Len(p)] + 1]
               \/ ReadLenOf(aln.subpath, p) = Len(aln.sequence)

(***************************************************************************)
(* Identity of the Alignments (SpecBFS)                                    *)
(***************************************************************************)
MatchedOf(sps, p) == SumSeq([k \in 1..Len(p) |-> Contribution(sps[p[k] + 1]).nb_match])
AlignedOf(sps, p) == SumSeq([k \in 1..Len(p) |-> Contribution(sps[p[k] + 1]).nb_aligned])

\* the prefixes left in the frontier, in the order BFS materializes them
Materialized == Concat([k \in 1..Len(current_paths) |-> current_paths[k].v])

\* C19: materializing the prefixes raises no error, and the identity of each
\* Alignment is (matched bases) / (aligned bases) of its subpaths, or 0 when no
\* base is aligned
C19_Identity ==
    /\ bpc # "ZeroDivisionError"
    /\ bpc = "done" =>
          \A i \in 1..Len(final_paths) :
              LET p == Materialized[i][1]
              IN  final_paths[i].identity
                    = IF AlignedOf(aln.subpath, p) = 0 THEN FZero
                      ELSE Frac(MatchedOf(aln.subpath, p), AlignedOf(aln.subpath, p))

(***************************************************************************)
(* Properties of the strain roll-up (SpecRun)                              *)
(***************************************************************************)
\* the gene records counted for strain e at the sweep threshold t, in order
GenesAt(e, t) ==
    SelectSeq(d_abund, LAMBDA ge : e \in StrainsOf(ge.k) /\ CovMeets(ge.v.coverage, t))

\* the member paths of gene whose strain is e
CopiesOf(gene, e) == Len(SelectSeq(DGet(d_genes, gene), LAMBDA g : g[4] = e))

\* C20: after the roll-up, for every (strain, threshold), the copy count appended
\* for a gene is the number of its member paths of that strain, so at least 1;
\* the abundance samples, the copy counts and the gene count agree in number; and
\* the normalization by the copy counts divides by zero in no case
C20_SameField ==
    /\ apc # "ZeroDivisionError"
    /\ apc = "normalise" =>
          \A e \in 1..Len(d_strains_abund) : \A i \in 1..NThr :
              LET v == d_strains_abund[e].v[i].v
                  genes == GenesAt(d_strains_abund[e].k, list_thr[i])
              IN  /\ Len(v.abund) = v.nb_genes
                  /\ Len(v.nb_copy) = v.nb_genes
                  /\ v.nb_copy = [k \in 1..Len(genes) |->
                                     CopiesOf(genes[k].k, d_strains_abund[e].k)]
                  /\ \A k \in 1..Len(v.nb_copy) : v.nb_copy[k] >= 1

(***************************************************************************)
(* The frontier of the best-path resolver (SpecBFS)                        *)
(***************************************************************************)
\* C21: at every test of the loop over the work queue, and when BFS is done, every
\* frontier entry current_paths[k] is non-empty; each prefix in it ends at subpath
\* k and follows successor links; the prefixes of one entry have one score; and
\* the score, read length, match count and aligned count recorded with a prefix
\* are the sums of the own contributions of its subpaths
C21_Frontier ==
    \A k \in 1..Len(current_paths) :
        LET e == current_paths[k]
        IN  /\ e.v # <<>>
            /\ \A i \in 1..Len(e.v) :
                  LET tupl == e.v[i]
                      path == tupl[1]
                  IN  /\ path # <<>>
                      /\ path[Len(path)] = e.k
                      /\ IsLinked(aln.subpath, path)
                      /\ tupl[3] = e.v[1][3]
                      /\ tupl[2] = ReadLenOf(aln.subpath, path)
                      /\ tupl[3] = ScoreOf(aln.subpath, path)
                      /\ tupl[4] = MatchedOf(aln.subpath, path)
                      /\ tupl[5] = AlignedOf(aln.subpath, path)

\* a frontier entry of several prefixes, one of them of three subpaths, while
\* the loop is running
C21_Witness ==
    /\ bpc = "walk"
    /\ \E k \in 1..Len(current_paths) :
          /\ Len(current_paths[k].v) >= 2
          /\ \E i \in 1..Len(current_paths[k].v) : Len(current_paths[k].v[i][1]) = 3

====
